---------------------------- MODULE Spec2Model ----------------------------
(***************************************************************************)
(* Model of gemma/gm/nn/gemma3n/_layers.py: the Einsum module, the         *)
(* reduce_precision helper and the RMSNorm module.                         *)
(*                                                                         *)
(* A tensor is a record [dtype, shape, frac, data]: data is the row-major  *)
(* sequence of the elements, each held as an integer mantissa n that       *)
(* stands for the real n / 2^frac.  The mantissa of an element may carry   *)
(* more significant bits than its declared dtype stores ("excess           *)
(* precision", the situation reduce_precision exists for); arithmetic      *)
(* results are kept at the precision of the model and are cut to the       *)
(* dtype's width only by reduce_precision.                                 *)
(***************************************************************************)
EXTENDS Integers, Sequences, FiniteSets, TLC

VARIABLES
  module,   \* which layer this behaviour instantiates
  cfg,      \* the dataclass fields of the module instance
  params,   \* the module's parameter collection: name -> tensor
  created,  \* what the initializer returned when each parameter was created
  last      \* the latest call: its arguments and what it returned or raised

vars == <<module, cfg, params, created, last>>

-----------------------------------------------------------------------------
(* Bounds of the model                                                     *)

\* reduce_precision is exercised on every mantissa in -MaxMant..MaxMant
MaxMant == 520
\* |mantissa| of the whole-number elements of Einsum inputs
MaxElem == 1
\* largest rank of an RMSNorm input
MaxRank == 3

-----------------------------------------------------------------------------
(* Element types                                                           *)

FloatTypes == {"bfloat16", "float16", "float32"}
IntTypes == {"int32"}
DTypes == FloatTypes \cup IntTypes

IsFloat(dt) == dt \in FloatTypes

\* jnp.finfo(dtype).nexp / .nmant
nexp(dt) == CASE dt = "bfloat16" -> 8 [] dt = "float16" -> 5 [] dt = "float32" -> 8

nmant(dt) == CASE dt = "bfloat16" -> 7 [] dt = "float16" -> 10 [] dt = "float32" -> 23

\* fractional bits of the mantissas of floating-point inputs and parameters
FracBits == 8

\* the mantissa standing for +infinity (-Inf for -infinity)
Inf == 2147483647

\* the mantissa standing for NaN
NaN == 2147483646

IsFinite(n) == -NaN < n /\ n < NaN

NoTensor == [dtype |-> "none", shape |-> <<>>, frac |-> 0, data |-> <<>>]

\* a sequence written as a function, enumerated once
Listed(f) == SubSeq(f, 1, Len(f))

Tensor(dt, sh, fr, d) ==
  [dtype |-> dt, shape |-> Listed(sh), frac |-> fr, data |-> Listed(d)]

Ok(t) == [status |-> "ok", err |-> "", out |-> t]

Raise(e) == [status |-> "error", err |-> e, out |-> NoTensor]

Abs(n) == IF n < 0 THEN -n ELSE n

Sign(n) == IF n < 0 THEN -1 ELSE 1

RECURSIVE BitLen(_)
\* number of significant bits of n >= 0
BitLen(n) == IF n = 0 THEN 0 ELSE 1 + BitLen(n \div 2)

RECURSIVE Prod(_)
Prod(s) == IF s = <<>> THEN 1 ELSE Head(s) * Prod(Tail(s))

-----------------------------------------------------------------------------
(* reduce_precision                                                        *)

\* m >= 0 rounded to `bits` significant bits with the low bits dropped but
\* the rounding increment left in place (a cut that forgets to mask)
RoundToBitsNoMask(m, bits) ==
  LET drop == BitLen(m) - bits
  IN IF drop <= 0 THEN m ELSE m + 2^(drop - 1)

\* m >= 0 rounded to `bits` significant bits, ties to even
RoundToBits(m, bits) ==
  LET drop == BitLen(m) - bits
  IN IF drop <= 0 THEN m
     ELSE LET unit == 2^drop
              q == m \div unit
              rem == m % unit
              half == unit \div 2
              up == IF rem > half \/ (rem = half /\ q % 2 = 1) THEN 1 ELSE 0
          IN (q + up) * unit

\* whether mantissa m (frac fractional bits) exceeds the largest finite value of
\* a format with ne exponent bits: 2^emax * 2 with emax = 2^(ne-1) - 1
Overflows(m, ne, fr) ==
  LET e == 2^(ne - 1) + fr
  IN e <= 30 /\ m >= 2^e

\* jax.lax.reduce_precision on one element
ReduceElem(n, ne, nm, fr) ==
  IF ~IsFinite(n) THEN n
  ELSE LET r == RoundToBits(Abs(n), nm + 1)
       IN IF Overflows(r, ne, fr) THEN Sign(n) * Inf ELSE Sign(n) * r

\* reduce_precision that passes a non-float tensor through unchanged
reduce_precision_lenient(x) ==
  IF ~IsFloat(x.dtype) THEN Ok(x)
  ELSE Ok(Tensor(x.dtype, x.shape, x.frac,
                 [i \in 1..Len(x.data) |->
                    ReduceElem(x.data[i], nexp(x.dtype), nmant(x.dtype), x.frac)]))

\* def reduce_precision(x): jnp.finfo raises ValueError for a non-float dtype
reduce_precision(x) ==
  IF ~IsFloat(x.dtype) THEN Raise("ValueError")
  ELSE Ok(Tensor(x.dtype, x.shape, x.frac,
                 [i \in 1..Len(x.data) |->
                    ReduceElem(x.data[i], nexp(x.dtype), nmant(x.dtype), x.frac)]))


-----------------------------------------------------------------------------
(* The tensor engine: elementwise arithmetic with broadcasting, mean,      *)
(* rsqrt, type promotion                                                   *)

\* a * b on elements (IEEE: 0 * inf = NaN)
FMul(a, b) ==
  IF a = NaN \/ b = NaN THEN NaN
  ELSE IF ~IsFinite(a) \/ ~IsFinite(b)
       THEN (IF a = 0 \/ b = 0 THEN NaN ELSE Sign(a) * Sign(b) * Inf)
       ELSE a * b

\* a + b on elements (IEEE: inf - inf = NaN)
FAdd(a, b) ==
  IF a = NaN \/ b = NaN THEN NaN
  ELSE IF ~IsFinite(a) /\ ~IsFinite(b) THEN (IF a = b THEN a ELSE NaN)
       ELSE IF ~IsFinite(a) THEN a
            ELSE IF ~IsFinite(b) THEN b ELSE a + b

RECURSIVE FSum(_)
FSum(s) == IF s = <<>> THEN 0 ELSE FAdd(Head(s), FSum(Tail(s)))

\* jnp.promote_types restricted to DTypes
Promote(a, b) ==
  IF a = b THEN a
  ELSE IF a \in IntTypes THEN b
       ELSE IF b \in IntTypes THEN a ELSE "float32"

\* shape s padded on the left with 1s to rank n
PadShape(s, n) ==
  [i \in 1..n |-> IF i <= n - Len(s) THEN 1 ELSE s[i - (n - Len(s))]]

Max(a, b) == IF a >= b THEN a ELSE b

Broadcastable(sa, sb) ==
  LET n == Max(Len(sa), Len(sb))
      pa == PadShape(sa, n)
      pb == PadShape(sb, n)
  IN \A i \in 1..n : pa[i] = pb[i] \/ pa[i] = 1 \/ pb[i] = 1

BroadcastShape(sa, sb) ==
  LET n == Max(Len(sa), Len(sb))
      pa == PadShape(sa, n)
      pb == PadShape(sb, n)
  IN [i \in 1..n |-> Max(pa[i], pb[i])]

\* row-major stride of axis i of shape s
Stride(s, i) == Prod(SubSeq(s, i + 1, Len(s)))

RECURSIVE OperandOffset(_, _, _, _)
\* 0-based offset, in an operand of (padded) shape pa, of the element that
\* broadcasts to 0-based offset k of the result of shape s; axes i..Len(s)
OperandOffset(k, s, pa, i) ==
  IF i > Len(s) THEN 0
  ELSE (IF pa[i] = 1 THEN 0 ELSE ((k \div Stride(s, i)) % s[i]) * Stride(pa, i))
       + OperandOffset(k, s, pa, i + 1)

\* a * b elementwise into shape s, pa and pb being the operands' padded shapes
BMulInto(a, b, s, pa, pb) ==
  Tensor(Promote(a.dtype, b.dtype), s, a.frac + b.frac,
         [k \in 1..Prod(s) |->
            FMul(a.data[OperandOffset(k - 1, s, pa, 1) + 1],
                 b.data[OperandOffset(k - 1, s, pb, 1) + 1])])

\* a * b with numpy broadcasting; the caller has checked Broadcastable
BMul(a, b) ==
  BMulInto(a, b, Listed(BroadcastShape(a.shape, b.shape)),
           Listed(PadShape(a.shape, Max(Len(a.shape), Len(b.shape)))),
           Listed(PadShape(b.shape, Max(Len(a.shape), Len(b.shape)))))

\* jnp.square
Square(x) ==
  Tensor(x.dtype, x.shape, 2 * x.frac,
         [i \in 1..Len(x.data) |-> FMul(x.data[i], x.data[i])])

\* the literal 1e-06: six decimal digits
EpsDigits == 6

RECURSIVE LongDiv(_, _, _)
\* floor(a * 10^k / b) for a >= 0, b > 0, by long division
LongDiv(a, b, k) ==
  IF k = 0 THEN a \div b
  ELSE (a \div b) * 10^k + LongDiv((a % b) * 10, b, k - 1)

\* shape with the last axis dropped (jnp.mean without keepdims)
DropLastAxis(sh) == SubSeq(sh, 1, Len(sh) - 1)

\* shape with the last axis kept as size 1 (keepdims=True)
KeepLastAxis(sh) == [sh EXCEPT ![Len(sh)] = 1]

\* jnp.mean(sq, axis=-1, keepdims=True).  The result is held in units of
\* 10^-EpsDigits (frac is not used); an integer input gives float32.
MeanLastAxis(sq) ==
  LET D == sq.shape[Len(sq.shape)]
      rows == Prod(sq.shape) \div D
      total(r) == FSum(SubSeq(sq.data, (r - 1) * D + 1, r * D))
  IN Tensor(IF IsFloat(sq.dtype) THEN sq.dtype ELSE "float32",
            KeepLastAxis(sq.shape), 0,
            [r \in 1..rows |->
               IF IsFinite(total(r))
               THEN LongDiv(total(r), (2^sq.frac) * D, EpsDigits)
               ELSE total(r)])

\* var + 1e-06, var in units of 10^-EpsDigits
AddEps(var) ==
  Tensor(var.dtype, var.shape, var.frac, [i \in 1..Len(var.data) |-> FAdd(var.data[i], 1)])

RECURSIVE IsqrtIter(_, _, _)
\* floor(sqrt(n)) given lo^2 <= n < hi^2
IsqrtIter(n, lo, hi) ==
  IF hi - lo <= 1 THEN lo
  ELSE LET mid == (lo + hi) \div 2
       IN IF mid * mid <= n THEN IsqrtIter(n, mid, hi) ELSE IsqrtIter(n, lo, mid)

Isqrt(n) == IsqrtIter(n, 0, IF n < 46340 THEN n + 1 ELSE 46341)

\* fractional bits of an rsqrt result
RFrac == 5

\* jax.lax.rsqrt on one element v (units of 10^-EpsDigits): 1/sqrt(v * 10^-EpsDigits)
RsqrtElem(v) ==
  IF v = NaN \/ v < 0 THEN NaN
  ELSE IF v = Inf THEN 0
       ELSE IF v = 0 THEN Inf
            ELSE Isqrt(((4^RFrac) * (10^EpsDigits)) \div v)

Rsqrt(var) ==
  Tensor(var.dtype, var.shape, RFrac, [i \in 1..Len(var.data) |-> RsqrtElem(var.data[i])])

-----------------------------------------------------------------------------
(* Parameter collection (flax: self.param)                                 *)

NoParam == NoTensor

\* self.param(name, init_fn, shape, ...): the stored value when there is one,
\* else the value the initializer returns
Param(ps, name, init) == IF ps[name] = NoParam THEN init ELSE ps[name]

\* the collection after self.param: a parameter is written when it is created
Store(ps, name, value) == [ps EXCEPT ![name] = value]

-----------------------------------------------------------------------------
(* class RMSNorm                                                           *)

\* if self.guard_against_excess_precision: x = reduce_precision(x), guard skipped
GuardedNever(c, x) == Ok(x)

\* if self.guard_against_excess_precision: x = reduce_precision(x)
Guarded(c, x) == IF c.guard_against_excess_precision THEN reduce_precision(x) ELSE Ok(x)

\* var = jnp.mean(jnp.square(x), axis=-1, keepdims=True)
Var(x) == MeanLastAxis(Square(x))

\* a * b, raising where jnp raises for shapes that do not broadcast
TryMul(a, b) ==
  IF Broadcastable(a.shape, b.shape) THEN Ok(BMul(a, b)) ELSE Raise("ValueError")

\* normed_inputs = x * jax.lax.rsqrt(var + 1e-06)
Normed(x) == TryMul(x, Rsqrt(AddEps(Var(x))))

\* the value self.scale_init returns for shape (x.shape[-1]): float32, the
\* initializers' default dtype
ScaleInit(c, D) ==
  Tensor("float32", <<D>>, 0, [i \in 1..D |-> IF c.scale_init = "zeros" THEN 0 ELSE 1])

\* scale reshaped by appending the singleton axes instead of prepending them
ExpandDimsTrailing(scale, x) ==
  Tensor(scale.dtype, [i \in 1..Len(x.shape) |-> IF i = 1 THEN scale.shape[1] ELSE 1],
         scale.frac, scale.data)

\* scale = jnp.expand_dims(scale, axis=range(len(x.shape) - 1)): (1, ..., 1, D)
ExpandDims(scale, x) ==
  Tensor(scale.dtype, [i \in 1..Len(x.shape) |-> IF i < Len(x.shape) THEN 1 ELSE scale.shape[1]],
         scale.frac, scale.data)

\* 1. + scale
OnePlus(scale) ==
  Tensor(scale.dtype, scale.shape, scale.frac,
         [i \in 1..Len(scale.data) |-> FAdd(2^scale.frac, scale.data[i])])

\* the multiplier with scale_plus_one ignored
MultiplierAlwaysPlusOne(c, scale) == OnePlus(scale)

\* the multiplier with scale_plus_one inverted
MultiplierInverted(c, scale) == IF c.scale_plus_one THEN scale ELSE OnePlus(scale)

\* 1. + scale if self.scale_plus_one else scale
Multiplier(c, scale) == IF c.scale_plus_one THEN OnePlus(scale) ELSE scale

LastDim(x) == x.shape[Len(x.shape)]

\* lines 70-76: scale is the parameter self.param returned (flax raises
\* ScopeParamShapeError when a stored parameter has not the shape asked for)
Scaled(c, ps, x, normed_inputs, scale) ==
  IF scale.shape # <<LastDim(x)>>
  THEN [res |-> Raise("ScopeParamShapeError"), params |-> ps]
  ELSE [res |-> TryMul(normed_inputs, Multiplier(c, ExpandDims(scale, x))),
        params |-> Store(ps, "scale", scale)]

\* lines 69-77, n being what line 67 returned or raised
AfterNormed(c, ps, x, n) ==
  IF n.status = "error" \/ ~c.with_scale THEN [res |-> n, params |-> ps]
  ELSE Scaled(c, ps, x, n.out, Param(ps, "scale", ScaleInit(c, LastDim(x))))

\* lines 63-77, g being what lines 60-61 returned or raised
AfterGuard(c, ps, g) ==
  IF g.status = "error" THEN [res |-> g, params |-> ps]
  ELSE AfterNormed(c, ps, g.out, Normed(g.out))

\* RMSNorm.__call__(x) on parameter collection ps: what it returns or raises,
\* and the collection afterwards
RMSNorm(c, ps, x) == AfterGuard(c, ps, Guarded(c, x))

-----------------------------------------------------------------------------
(* class Einsum                                                            *)

Eqns == {"...d,dh->...h", "td,dh->th"}

\* the dtype handed to the initializer (line 37 passes self.dtype on, None
\* included), and the dtype the initializer then produces: its default float32
WeightDType(c) == IF c.dtype # "None" THEN c.dtype ELSE "float32"

\* the scaled weight written back to the collection (an in-place w *= w_scale)
StoreScaledWeight(ps, stored, w) == Store(ps, "w", w)

\* the collection after line 33: w *= self.w_scale rebinds the local name only
StoreWeight(ps, stored, w) == Store(ps, "w", stored)

\* if self.w_scale: w *= self.w_scale   (None and 0 are both falsy)
ScaledWeight(c, w) ==
  IF ~c.w_scale_is_none /\ c.w_scale # 0
  THEN Tensor(w.dtype, w.shape, w.frac, [i \in 1..Len(w.data) |-> FMul(w.data[i], c.w_scale)])
  ELSE w

\* whether the operand shapes fit the equation: x is (..., d) and w is (d, h)
ShapesAgree(eqn, xs, ws) ==
  /\ Len(ws) = 2
  /\ Len(xs) >= 1
  /\ eqn = "td,dh->th" => Len(xs) = 2
  /\ xs[Len(xs)] = ws[1]

\* the contraction over min(d of x, d of w), for operands known to have the ranks
ContractTruncated(x, w) ==
  LET dx == x.shape[Len(x.shape)]
      d == IF dx <= w.shape[1] THEN dx ELSE w.shape[1]
      h == w.shape[2]
      rows == Prod(x.shape) \div dx
  IN Tensor(Promote(x.dtype, w.dtype), DropLastAxis(x.shape) \o <<h>>, x.frac + w.frac,
            [k \in 1..(rows * h) |->
               LET r == (k - 1) \div h
                   j == ((k - 1) % h) + 1
               IN FSum([i \in 1..d |-> FMul(x.data[r * dx + i], w.data[(i - 1) * h + j])])])

\* sum over d of x[..., d] * w[d, h]
Contract(x, w) ==
  LET d == w.shape[1]
      h == w.shape[2]
      rows == Prod(x.shape) \div d
  IN Tensor(Promote(x.dtype, w.dtype), DropLastAxis(x.shape) \o <<h>>, x.frac + w.frac,
            [k \in 1..(rows * h) |->
               LET r == (k - 1) \div h
                   j == ((k - 1) % h) + 1
               IN FSum([i \in 1..d |-> FMul(x.data[r * d + i], w.data[(i - 1) * h + j])])])

\* jnp.einsum that contracts what fits instead of raising on a size mismatch
einsumLenient(eqn, x, w) ==
  IF Len(w.shape) = 2 /\ Len(x.shape) >= 1 /\ (eqn = "td,dh->th" => Len(x.shape) = 2)
  THEN Ok(ContractTruncated(x, w))
  ELSE Raise("ShapeMismatch")

\* jnp.einsum(eqn, x, w)
einsum(eqn, x, w) ==
  IF ShapesAgree(eqn, x.shape, w.shape) THEN Ok(Contract(x, w)) ELSE Raise("ShapeMismatch")

\* lines 39-41, stored being the parameter line 33 returned
WithWeight(c, ps, eqn, x, stored, w) ==
  [res |-> einsum(eqn, x, w), params |-> StoreWeight(ps, stored, w)]

\* Einsum.__call__(eqn, x) on parameter collection ps, winit being what the
\* initializer returns if it is called
Einsum(c, ps, eqn, x, winit) ==
  WithWeight(c, ps, eqn, x, Param(ps, "w", winit), ScaledWeight(c, Param(ps, "w", winit)))

-----------------------------------------------------------------------------
(* Inputs the model draws from                                             *)

\* all sequences of length n over S
Seqs(S, n) == [1..n -> S]

\* all tensors of the given dtypes, shapes and fractional bits over the mantissas
Tensors(dts, shapes, fr, mants) ==
  UNION {{Tensor(dt, sh, fr, d) : d \in Seqs(mants, Prod(sh))} : dt \in dts, sh \in shapes}

\* reduce_precision: one-element tensors over a dense range of mantissas, and
\* over the mantissas around the widths and the largest value of each float type
ReduceMants ==
  (-MaxMant..MaxMant)
    \cup {2047, 2049, 2051, 6147, 16769023, 16773119, 16773120, 16777215, 16777217,
          33554434, 33554438, -16773120, -16777219, Inf, -Inf, NaN}

ReduceInputs ==
  Tensors(FloatTypes, {<<1>>}, FracBits, ReduceMants)
    \cup Tensors(IntTypes, {<<1>>, <<2>>}, 0, {-3, 0, 7})

\* RMSNorm: float mantissas with FracBits fractional bits (256 is 1.0; 257 needs
\* nine significant bits and is no bfloat16 value), integers as they are
NormInputs ==
  Tensors({"bfloat16"}, {<<2>>}, FracBits, {0, 257, -768, Inf})
    \cup Tensors({"float32"}, {<<2>>}, FracBits, {257, Inf})
    \cup Tensors({"bfloat16", "float16"},
                 {[i \in 1..n |-> IF i < n THEN 1 ELSE 2] : n \in 2..MaxRank},
                 FracBits, {257, -768})
    \cup Tensors({"bfloat16"}, {<<2, 1>>}, FracBits, {257, -768})
    \cup Tensors({"float32"}, {<<1>>, <<1, 3>>}, FracBits, {0, 1024})
    \cup {Tensor("float32", <<2, 3>>, FracBits, <<768, 1024, 0, 256, 256, 256>>)}
    \cup Tensors(IntTypes, {<<2>>}, 0, {0, 3, -4})
    \cup {Tensor("int32", <<1, 2>>, 0, <<3, -4>>)}

\* Einsum: whole-number elements
EinsumInputs ==
  Tensors({"bfloat16", "float32"}, {<<2>>}, 0, -MaxElem..MaxElem)
    \cup Tensors({"bfloat16"}, {<<1, 2>>}, 0, {-1, 2})
    \cup {Tensor("float32", <<2, 2>>, 0, <<1, 2, -1, 0>>)}
    \cup Tensors({"int32"}, {<<2>>, <<3>>}, 0, {2})

\* what the initializer may return for a weight of the given shape and dtype
Weights(sh, dt) ==
  IF Prod(sh) <= 2 THEN Tensors({dt}, {sh}, 0, {-2, 1})
  ELSE {Tensor(dt, sh, 0, [i \in 1..Prod(sh) |-> IF i % 2 = 1 THEN -2 ELSE i])}

DefaultCfg ==
  [shape |-> <<>>, weight_name |-> "w", dtype |-> "None",
   w_scale_is_none |-> TRUE, w_scale |-> 0,
   with_scale |-> TRUE, scale_init |-> "zeros", scale_plus_one |-> TRUE,
   guard_against_excess_precision |-> FALSE]

EinsumCfgs ==
  {[DefaultCfg EXCEPT !.shape = sh, !.dtype = dt, !.w_scale_is_none = wn, !.w_scale = ws] :
     sh \in {<<2, 1>>, <<2, 2>>, <<2>>}, dt \in {"None", "bfloat16"},
     wn \in BOOLEAN, ws \in {0, 1, 3}}

RMSNormCfgs ==
  {[DefaultCfg EXCEPT !.with_scale = s, !.scale_init = si, !.scale_plus_one = p,
                      !.guard_against_excess_precision = g] :
     s \in BOOLEAN, si \in {"zeros", "ones"}, p \in BOOLEAN, g \in BOOLEAN}

NoParams == [w |-> NoParam, scale |-> NoParam]

NoCall ==
  [op |-> "none", eqn |-> "", x |-> NoTensor, res |-> Raise("none"),
   fresh |-> FALSE, again |-> FALSE]

-----------------------------------------------------------------------------
(* The state machines: one module instance, or the helper, per behaviour   *)

InitEinsum ==
  /\ module = "Einsum"
  /\ cfg \in {c \in EinsumCfgs : c.w_scale_is_none => c.w_scale = 0}
  /\ params = NoParams
  /\ created = NoParams
  /\ last = NoCall

InitRMSNorm ==
  /\ module = "RMSNorm"
  /\ cfg \in RMSNormCfgs
  /\ params = NoParams
  /\ created = NoParams
  /\ last = NoCall

InitReduce ==
  /\ module = "reduce_precision"
  /\ cfg = DefaultCfg
  /\ params = NoParams
  /\ created = NoParams
  /\ last = NoCall

\* a call Einsum(...)(eqn, x); winit is what the initializer returns if called
EinsumCall(eqn, x, winit) ==
  /\ module = "Einsum"
  /\ \E r \in {Einsum(cfg, params, eqn, x, winit)} :
        /\ params' = r.params
        /\ created' = IF params.w = NoParam THEN [created EXCEPT !.w = winit] ELSE created
        /\ last' = [op |-> "Einsum", eqn |-> eqn, x |-> x, res |-> r.res,
                    fresh |-> params.w = NoParam, again |-> FALSE]
  /\ UNCHANGED <<module, cfg>>

\* a call RMSNorm(...)(x)
RMSNormCall(x) ==
  /\ module = "RMSNorm"
  /\ \E r \in {RMSNorm(cfg, params, x)} :
        /\ params' = r.params
        /\ created' = IF params.scale = NoParam THEN [created EXCEPT !.scale = r.params.scale]
                      ELSE created
        /\ last' = [op |-> "RMSNorm", eqn |-> "", x |-> x, res |-> r.res,
                    fresh |-> params.scale = NoParam /\ r.params.scale # NoParam,
                    again |-> FALSE]
  /\ UNCHANGED <<module, cfg>>

\* a call reduce_precision(x)
ReducePrecisionCall(x) ==
  /\ module = "reduce_precision"
  /\ last.op = "none"
  /\ last' = [op |-> "reduce_precision", eqn |-> "", x |-> x, res |-> reduce_precision(x),
              fresh |-> FALSE, again |-> FALSE]
  /\ UNCHANGED <<module, cfg, params, created>>

\* reduce_precision applied to the tensor the previous call returned
ReducePrecisionAgain ==
  /\ module = "reduce_precision"
  /\ last.op = "reduce_precision"
  /\ last.res.status = "ok"
  /\ ~last.again
  /\ last' = [op |-> "reduce_precision", eqn |-> "", x |-> last.res.out,
              res |-> reduce_precision(last.res.out), fresh |-> FALSE, again |-> TRUE]
  /\ UNCHANGED <<module, cfg, params, created>>

NextEinsum ==
  \E eqn \in Eqns, x \in EinsumInputs :
    \E winit \in IF params.w = NoParam THEN Weights(cfg.shape, WeightDType(cfg))
                 ELSE {params.w} :
      EinsumCall(eqn, x, winit)

NextRMSNorm == \E x \in NormInputs : RMSNormCall(x)

NextReduce ==
  \/ \E x \in ReduceInputs : ReducePrecisionCall(x)
  \/ ReducePrecisionAgain

SpecEinsum == InitEinsum /\ [][NextEinsum]_vars

SpecRMSNorm == InitRMSNorm /\ [][NextRMSNorm]_vars

SpecReduce == InitReduce /\ [][NextReduce]_vars

InitGuard == InitRMSNorm \/ InitReduce

NextGuard == NextRMSNorm \/ NextReduce

\* RMSNorm and the helper it calls, side by side
SpecGuard == InitGuard /\ [][NextGuard]_vars

-----------------------------------------------------------------------------
(* Properties                                                              *)

EinsumReturned == last.op = "Einsum" /\ last.res.status = "ok"

RMSNormReturned == last.op = "RMSNorm" /\ last.res.status = "ok"

AllFinite(d) == \A i \in 1..Len(d) : IsFinite(d[i])

AllZero(d) == \A i \in 1..Len(d) : d[i] = 0

\* the stored scale is all zeros and as long as the last axis of the input
ZeroScale ==
  /\ params.scale # NoParam
  /\ AllZero(params.scale.data)
  /\ Len(params.scale.data) = LastDim(last.x)

\* x * rsqrt(mean(x^2 over the last axis) + 1e-6), element by element
NormRef(x) ==
  LET D == LastDim(x)
      sumsq(r) == FSum([j \in 1..D |-> FMul(x.data[(r - 1) * D + j], x.data[(r - 1) * D + j])])
      mean(r) == IF IsFinite(sumsq(r)) THEN LongDiv(sumsq(r), (4^x.frac) * D, 6) ELSE sumsq(r)
  IN [dtype |-> IF IsFloat(x.dtype) THEN x.dtype ELSE "float32",
      shape |-> x.shape,
      frac |-> x.frac + RFrac,
      data |-> Listed([i \in 1..Len(x.data) |->
                         FMul(x.data[i], RsqrtElem(FAdd(mean(((i - 1) \div D) + 1), 1)))])]

\* C1 (as claimed): Einsum with w_scale = m, 0 included, returns what Einsum
\* with w_scale = 1 returns on the same weight and input, multiplied by m.
C1_ScaleIsLinear ==
  (EinsumReturned /\ ~cfg.w_scale_is_none) =>
    LET one == Einsum([cfg EXCEPT !.w_scale = 1], params, last.eqn, last.x, created.w).res.out
    IN /\ last.res.out.shape = one.shape
       /\ last.res.out.data = [i \in 1..Len(one.data) |-> FMul(one.data[i], cfg.w_scale)]

\* C2: after any sequence of Einsum calls the stored weight is the value the
\* initializer returned at the first call, and every call returns what the
\* equation gives on its input and that value scaled for this call only.
C2_WeightCreatedOnce ==
  last.op = "Einsum" =>
    /\ created.w \in Weights(cfg.shape, WeightDType(cfg))
    /\ params.w = created.w
    /\ last.res = einsum(last.eqn, last.x, ScaledWeight(cfg, created.w))

C2_Witness ==
  /\ EinsumReturned
  /\ ~last.fresh
  /\ ~cfg.w_scale_is_none /\ cfg.w_scale = 3
  /\ ~AllZero(last.res.out.data)

\* C3 (as claimed): with with_scale disabled, whatever the other flags, RMSNorm
\* returns x * rsqrt(mean(x^2) + 1e-6) computed on x as passed, and no 'scale'
\* parameter exists.
C3_UnscaledOnInputAsPassed ==
  (last.op = "RMSNorm" /\ ~cfg.with_scale) =>
    /\ last.res = Ok(NormRef(last.x))
    /\ params.scale = NoParam

\* C3 (amended): with with_scale disabled no 'scale' parameter exists; with the
\* guard disabled RMSNorm returns x * rsqrt(mean(x^2) + 1e-6) computed on x as
\* passed; with the guard enabled it returns that expression computed on
\* reduce_precision(x), and raises for an x that is not floating point.
C3_UnscaledOnGuardedInput ==
  (last.op = "RMSNorm" /\ ~cfg.with_scale) =>
    /\ params.scale = NoParam
    /\ ~cfg.guard_against_excess_precision => last.res = Ok(NormRef(last.x))
    /\ (cfg.guard_against_excess_precision /\ IsFloat(last.x.dtype)) =>
         last.res = Ok(NormRef(reduce_precision(last.x).out))
    /\ (cfg.guard_against_excess_precision /\ ~IsFloat(last.x.dtype)) =>
         last.res = Raise("ValueError")

C3_Witness ==
  /\ RMSNormReturned
  /\ ~cfg.with_scale
  /\ cfg.guard_against_excess_precision
  /\ reduce_precision(last.x).out # last.x
  /\ last.res.out # NormRef(last.x)

\* what RMSNorm with with_scale disabled returns on the same input
Unscaled == RMSNorm([cfg EXCEPT !.with_scale = FALSE], params, last.x).res

\* C4 (as claimed): with with_scale and scale_plus_one enabled and an all-zero
\* scale, RMSNorm returns the same tensor as with with_scale disabled.
C4_ZeroScalePlusOneSameTensor ==
  (last.op = "RMSNorm" /\ cfg.with_scale /\ cfg.scale_plus_one /\ ZeroScale) =>
    last.res = Unscaled

\* C4 (amended): with with_scale and scale_plus_one enabled and an all-zero
\* scale, RMSNorm returns a tensor with the shape and the element values of the
\* unscaled normalization, whose element type is that of the unscaled result
\* promoted with the scale parameter's type; it raises when the unscaled
\* normalization raises.
C4_ZeroScalePlusOneSameValues ==
  (last.op = "RMSNorm" /\ cfg.with_scale /\ cfg.scale_plus_one /\ ZeroScale) =>
    /\ last.res.status = Unscaled.status
    /\ last.res.err = Unscaled.err
    /\ last.res.out.shape = Unscaled.out.shape
    /\ last.res.out.frac = Unscaled.out.frac
    /\ last.res.out.data = Unscaled.out.data
    /\ last.res.status = "ok" =>
         last.res.out.dtype = Promote(Unscaled.out.dtype, params.scale.dtype)

C4_Witness ==
  /\ RMSNormReturned
  /\ cfg.with_scale /\ cfg.scale_plus_one /\ ZeroScale
  /\ last.x.dtype = "bfloat16"
  /\ last.res.out.dtype = "float32"
  /\ \E i \in 1..Len(last.res.out.data) :
       IsFinite(last.res.out.data[i]) /\ last.res.out.data[i] # 0

\* C5 (as claimed): with with_scale enabled, scale_plus_one disabled and an
\* all-zero scale, every element of the tensor RMSNorm returns is zero, for
\* every input.
C5_ZeroScaleAllZero ==
  (RMSNormReturned /\ cfg.with_scale /\ ~cfg.scale_plus_one /\ ZeroScale) =>
    AllZero(last.res.out.data)

\* C5 (amended): with with_scale enabled, scale_plus_one disabled and an
\* all-zero scale, every element of the tensor RMSNorm returns is zero, for
\* every input whose elements (after reduce_precision when the guard is
\* enabled) are all finite.
C5_ZeroScaleAllZeroOnFinite ==
  (/\ RMSNormReturned /\ cfg.with_scale /\ ~cfg.scale_plus_one /\ ZeroScale
   /\ AllFinite(Guarded(cfg, last.x).out.data)) =>
    /\ AllZero(last.res.out.data)
    /\ Len(last.res.out.data) = Len(last.x.data)

C5_Witness ==
  /\ RMSNormReturned
  /\ cfg.with_scale /\ ~cfg.scale_plus_one /\ ZeroScale
  /\ AllFinite(last.x.data)
  /\ ~AllZero(last.x.data)
  /\ AllZero(last.res.out.data)

\* C6: whatever the flags, the tensor RMSNorm returns has exactly the shape of
\* its input (and as many elements).
C6_ShapePreserved ==
  RMSNormReturned =>
    /\ last.res.out.shape = last.x.shape
    /\ Len(last.res.out.data) = Prod(last.x.shape)

C6_Witness ==
  /\ RMSNormReturned
  /\ cfg.with_scale
  /\ Len(last.x.shape) = 3
  /\ last.res.out.shape = last.x.shape

\* C7: reduce_precision is idempotent and keeps the declared element type:
\* applied to a tensor it returned it returns that tensor, and what it returns
\* has the dtype of its argument.
C7_ReduceIdempotent ==
  (last.op = "reduce_precision" /\ last.res.status = "ok") =>
    /\ last.res.out.dtype = last.x.dtype
    /\ reduce_precision(last.res.out) = Ok(last.res.out)
    /\ last.again => last.res.out = last.x

C7_Witness ==
  /\ last.op = "reduce_precision"
  /\ last.again
  /\ last.res.status = "ok"
  /\ last.x.dtype = "bfloat16"
  /\ BitLen(Abs(last.x.data[1])) = 9

\* the axis sizes the equation implies disagree with the input's shape or with
\* the configured weight shape
AxisSizesDisagree(eqn, xs, ws) ==
  \/ Len(ws) # 2
  \/ Len(xs) = 0
  \/ eqn = "td,dh->th" /\ Len(xs) # 2
  \/ Len(ws) = 2 /\ Len(xs) > 0 /\ xs[Len(xs)] # ws[1]

C9_NonFloatRaises ==
  [][/\ (last'.op = "reduce_precision" /\ ~IsFloat(last'.x.dtype)) =>
          last'.res = Raise("ValueError")
     /\ (last'.op = "RMSNorm" /\ cfg.guard_against_excess_precision
           /\ ~IsFloat(last'.x.dtype)) =>
          (last'.res = Raise("ValueError") /\ params' = params /\ ~last'.fresh)]_vars

C9_Witness ==
  /\ last.op = "RMSNorm"
  /\ cfg.guard_against_excess_precision /\ cfg.with_scale
  /\ last.x.dtype = "int32"
  /\ last.res.status = "error"
  /\ params.scale = NoParam

\* C10 (as claimed): with no dtype configured the weight has the input's
\* element type and so has the result; with a dtype configured the result has
\* the promotion of the input's type and the configured type.
C10_WeightTypeDefaultsToInput ==
  EinsumReturned =>
    /\ cfg.dtype = "None" =>
         (params.w.dtype = last.x.dtype /\ last.res.out.dtype = last.x.dtype)
    /\ cfg.dtype # "None" =>
         (params.w.dtype = cfg.dtype /\ last.res.out.dtype = Promote(last.x.dtype, cfg.dtype))

=============================================================================
